---------------------------- MODULE Spec2Model ----------------------------
(***************************************************************************)
(* Model of libfsverity_compute_digest() (src/lib/compute_digest.c): the   *)
(* parameter validation, the descriptor, the streaming Merkle tree builder *)
(* compute_root_hash() with its block-hash step hash_one_block(), and the  *)
(* release of every resource on every exit path.                           *)
(*                                                                         *)
(* One behaviour is one call (SpecRepeat: the same call made twice).  The  *)
(* caller's arguments, the file content and the callback's error code are  *)
(* chosen in Init; allocation failures and read failures are chosen where  *)
(* they happen.  Memory is modelled byte by byte: a buffer is a sequence   *)
(* of bytes, fresh memory holds an arbitrary byte until it is zeroed.      *)
(*                                                                         *)
(* The u64 of the code is scaled to WordBits bits.  The file sizes of Init  *)
(* are 0..MaxBlocks blocks, more than a block below the limit of the       *)
(* counter, so the offset counter does not wrap in the behaviours of Spec  *)
(* and SpecRepeat.  SpecWide is the same call on the large files: sizes    *)
(* around every power of hashes_per_block blocks, up to the largest u64.   *)
(***************************************************************************)
EXTENDS Integers, Sequences, FiniteSets, TLC

(* ------------------------------ bounds --------------------------------- *)

\* Largest file, in blocks of block_size bytes.
MaxBlocks == 5

\* Width in bits of the model's u64: file sizes and offsets live in
\* 0 .. 2^WordBits - 1 and the offset counter wraps at 2^WordBits.
WordBits == 11

(* --------------------------- program constants ------------------------- *)

FS_VERITY_MAX_LEVELS == 64

\* sizeof(struct fsverity_descriptor) and the offsets/sizes of its fields.
DESC_SIZE == 256
OFF_ROOT_HASH == 16
ROOT_HASH_SIZE == 64
OFF_SALT == 80
SALT_SIZE == 32

\* errno values as returned (negated) by the library.
EINVAL == 22
ENOMEM == 12

\* ARRAY_SIZE(params->reserved)
RESERVED_LEN == 11

\* one more than the largest u64 of the model
U64 == 2^WordBits

(* ------------------------------ bytes ---------------------------------- *)

Min(a, b) == IF a < b THEN a ELSE b

Zeros(n) == [i \in 1..n |-> 0]

\* memory as it is before anything was stored in it: n bytes of value g
Stale(n, g) == [i \in 1..n |-> g]

\* memset(&mem[off], 0, n)
memset0(mem, off, n) ==
    [i \in 1..Len(mem) |-> IF i > off /\ i <= off + n THEN 0 ELSE mem[i]]

\* memcpy(&mem[off], src, Len(src))
memcpy(mem, off, src) ==
    [i \in 1..Len(mem) |->
        IF i > off /\ i <= off + Len(src) THEN src[i - off] ELSE mem[i]]

\* the n bytes of mem that start at offset off
Slice(mem, off, n) == [i \in 1..n |-> mem[off + i]]

\* is_power_of_2(n), for the block sizes of the model (below 2^13)
is_power_of_2(n) == n \in {2^k : k \in 0..12}

\* ilog2(n) for 1 <= n < 2^13
ilog2(n) == CHOOSE k \in 0..12 : 2^k <= n /\ n < 2^(k + 1)

\* roundup(x, y): x rounded up to a multiple of y
roundup(x, y) == ((x + y - 1) \div y) * y

\* DIV_ROUND_UP(n, d) for d > 0.  The macro is defined outside
\* compute_digest.c; it is taken as the spec gives it, ceil(n / d), computed
\* on unbounded integers.
DIV_ROUND_UP(n, d) == (n + d - 1) \div d

\* cpu_to_le64(v): the 8 bytes of v, least significant first (the file sizes
\* of the model are below 2^32, so the upper four bytes are 0)
cpu_to_le64(v) == [j \in 1..8 |-> IF j <= 4 THEN (v \div (256^(j - 1))) % 256 ELSE 0]

(* ------------------- hash algorithms and hash contexts ----------------- *)

\* what the lookup returns for a number the registry does not know (NULL)
NoAlg == [num |-> 0, digest_size |-> 0, block_size |-> 0]

\* The registry: SHA-256 and SHA-512 by their fs-verity numbers.
libfsverity_find_hash_alg_by_num(num) ==
    CASE num = 1 -> [num |-> 1, digest_size |-> 32, block_size |-> 64]
      [] num = 2 -> [num |-> 2, digest_size |-> 64, block_size |-> 128]
      [] OTHER   -> NoAlg

\* The primitive is a black box; it is modelled as a deterministic function
\* of the algorithm and of the bytes fed since init, written so that any
\* byte and the position of any byte change the state.
HASH_MOD == 32749

\* feeding one byte b takes state acc to Mix(acc, b)
Mix(acc, b) == (acc * 31 + b + 1) % HASH_MOD

\* feeding bytes[lo..hi], in order, takes state acc to (m * acc + a) % HASH_MOD:
\* the composition of Mix over the bytes, as its pair <<m, a>>
RECURSIVE Feed(_, _, _)
Feed(bytes, lo, hi) ==
    IF lo > hi THEN <<1, 0>>
    ELSE IF lo = hi THEN <<31, bytes[lo] + 1>>
    ELSE LET mid == (lo + hi) \div 2
             l   == Feed(bytes, lo, mid)
             r   == Feed(bytes, mid + 1, hi)
         IN  <<(l[1] * r[1]) % HASH_MOD, (r[1] * l[2] + r[2]) % HASH_MOD>>

Absorb(acc, bytes) ==
    LET f == Feed(bytes, 1, Len(bytes)) IN (f[1] * acc + f[2]) % HASH_MOD

\* hash = NULL
NoCtx == [alg |-> NoAlg, st |-> "null", acc |-> 0, fed |-> << >>, misuse |-> FALSE]

\* A context records how it is used: st is "new" until the first init,
\* "init" from an init to the next final, "final" after a final; fed holds
\* the lengths of the updates since the last init; misuse is set by an update
\* or a final that is not preceded by an init since the last final.
create_ctx(alg) == [alg |-> alg, st |-> "new", acc |-> 0, fed |-> << >>, misuse |-> FALSE]

libfsverity_hash_init(h) ==
    [h EXCEPT !.st = "init", !.acc = 7 * h.alg.num, !.fed = << >>]

libfsverity_hash_update(h, bytes) ==
    [h EXCEPT !.acc = Absorb(h.acc, bytes),
              !.fed = Append(@, Len(bytes)),
              !.misuse = @ \/ h.st # "init"]

\* the digest_size bytes that final writes
DigestOf(h) ==
    [i \in 1..h.alg.digest_size |->
        CASE i = 1 -> h.acc % 256
          [] i = 2 -> h.acc \div 256
          [] OTHER -> (h.acc * i + i) % 256]

libfsverity_hash_final(h) ==
    [h EXCEPT !.st = "final", !.misuse = @ \/ h.st # "init"]

\* libfsverity_hash_full: init; update(bytes); final
HashFullCtx(h, bytes) ==
    libfsverity_hash_final(libfsverity_hash_update(libfsverity_hash_init(h), bytes))

libfsverity_hash_full(h, bytes) ==
    DigestOf(libfsverity_hash_update(libfsverity_hash_init(h), bytes))


(* ------------------------------ the inputs ----------------------------- *)

\* block sizes of the valid calls: with SHA-256 (digest 32) and SHA-512
\* (digest 64) they give 0, 1, 2 and 4 hashes per block
BlockSizes == {16, 32, 64, 128}

\* the salt the caller passes: n bytes
SaltBytes(n) == [i \in 1..n |-> (i * 13 + 5) % 256]

\* byte i (from 0) of the file whose content is numbered seed
ContentByte(seed, i) == (seed + 7 * i + 11 * (i \div 64)) % 256

Seeds == {3, 200}

\* nonzero values a failing read callback may return
ReadErrors == {-5, 7}

\* the bytes a fresh stack frame or a fresh heap block may hold
Garbage == {0, 170}

\* file sizes around every block boundary up to MaxBlocks blocks
FileSizes(bs) ==
    {0} \cup {k * bs : k \in 1..MaxBlocks}
        \cup {(k - 1) * bs + 1 : k \in 1..MaxBlocks}
        \cup {bs - 1}

ZeroReserved == [i \in 1..RESERVED_LEN |-> 0]

AllArgs == [read_fn |-> TRUE, params |-> TRUE, digest_ret |-> TRUE]

\* calls that pass validation
ValidParams ==
    UNION { { [version |-> 1, hash_algorithm |-> a, block_size |-> bs,
               salt_size |-> ss, salt_ptr |-> (ss # 0), salt |-> SaltBytes(ss),
               reserved |-> ZeroReserved, file_size |-> fs] :
                 a \in {1, 2}, ss \in {0, 1, 32}, fs \in FileSizes(bs) } :
            bs \in BlockSizes }

\* calls around the validation checks: every field takes its valid value
\* and values that fail its check, in every combination
CheckedParams ==
    { [version |-> v, hash_algorithm |-> a, block_size |-> bs,
       salt_size |-> sp[1], salt_ptr |-> sp[2], salt |-> SaltBytes(sp[1]),
       reserved |-> [ZeroReserved EXCEPT ![r[1]] = r[2]], file_size |-> fs] :
         v \in {1, 2}, a \in {1, 0, 3}, bs \in {64, 0, 96, 4097},
         sp \in {<<1, TRUE>>, <<33, TRUE>>, <<1, FALSE>>, <<0, FALSE>>},
         r \in {<<1, 0>>, <<1, 9>>, <<RESERVED_LEN, 1>>},
         fs \in {0, 65} }

\* the pointer arguments, present or NULL
CheckedArgs ==
    { [read_fn |-> TRUE, params |-> TRUE, digest_ret |-> TRUE],
      [read_fn |-> FALSE, params |-> TRUE, digest_ret |-> TRUE],
      [read_fn |-> TRUE, params |-> FALSE, digest_ret |-> TRUE],
      [read_fn |-> TRUE, params |-> TRUE, digest_ret |-> FALSE],
      [read_fn |-> FALSE, params |-> FALSE, digest_ret |-> FALSE] }

(* ------------------------------ the state ------------------------------ *)

VARIABLES
    args,        \* which pointer arguments of the call are non-NULL
    params,      \* *params
    seed,        \* the content of the file behind fd
    pc,          \* position of the call
    hash,        \* struct hash_ctx *hash
    desc,        \* struct fsverity_descriptor desc, as its 256 bytes
    num_levels,  \* compute_root_hash: int num_levels
    level,       \* compute_root_hash: int level
    offset,      \* compute_root_hash: u64 offset
    err,         \* int err
    padded_salt, \* compute_root_hash: u8 *padded_salt, as its bytes
    buffers,     \* compute_root_hash: buffers[-1 .. FS_VERITY_MAX_LEVELS]
    heap,        \* the heap blocks: hash context, padded salt, level data, digest
    digest,      \* struct libfsverity_digest *digest, as the record it points to
    digest_ret,  \* *digest_ret, the caller's output slot
    ret,         \* the value the call returned (at pc = "done")
    fdpos,       \* read position of fd
    trace,       \* what an observer of the call has seen so far
    invocation,  \* 1, or 2 for the repeated call
    first        \* what the first call returned

vars == <<args, params, seed, pc, hash, desc, num_levels, level, offset,
          err, padded_salt, buffers, heap, digest, digest_ret, ret, fdpos,
          trace, invocation, first>>

inputs == <<args, params, seed>>

\* indices of _buffers[1 + FS_VERITY_MAX_LEVELS + 1], shifted by one
BufferIndex == (-1)..FS_VERITY_MAX_LEVELS

\* struct block_buffer {} : filled = 0, data = NULL
EmptyBuffers == [l \in BufferIndex |-> [filled |-> 0, data |-> "NULL"]]

\* a heap block: never allocated / live / freed, and how often it was freed
NoBlock == [st |-> "none", frees |-> 0, bytes |-> << >>]

EmptyHeap ==
    [hash |-> [st |-> "none", frees |-> 0],
     salt |-> [st |-> "none", frees |-> 0],
     digest |-> [st |-> "none", frees |-> 0],
     buf |-> [l \in BufferIndex |-> NoBlock],
     bad_free |-> FALSE]

NoDigest == [digest_algorithm |-> 0, digest_size |-> 0, digest |-> << >>]

\* the failure the environment injected into a call: none, the at-th
\* allocation returning NULL, or the at-th read returning e
NoFail == [kind |-> "none", at |-> 0, e |-> 0]

\* the observer's record: read calls as <<offset, count>>, number of
\* block-hash steps, diagnostics, allocation attempts, the injected failure
\* with the reads and block-hash steps seen when a read failed, the
\* number of stores to *digest_ret, and the block count the level loop
\* started from (-1 before the loop)
EmptyTrace ==
    [reads |-> << >>, hash_steps |-> 0, msgs |-> << >>, allocs |-> 0,
     fail |-> NoFail, at_fail |-> <<0, 0>>, slot_writes |-> 0, blocks |-> -1]

NoResult == [ret |-> 0, digest |-> NoDigest, fail |-> NoFail]

InitLocals ==
    /\ pc = "call"
    /\ hash = NoCtx
    /\ desc = << >>
    /\ num_levels = 0
    /\ level = 0
    /\ offset = 0
    /\ err = 0
    /\ padded_salt = << >>
    /\ buffers = EmptyBuffers
    /\ heap = EmptyHeap
    /\ digest = NoDigest
    /\ digest_ret = "caller"
    /\ ret = 0
    /\ fdpos = 0
    /\ trace = EmptyTrace
    /\ invocation = 1
    /\ first = NoResult

Init ==
    /\ \/ /\ args = AllArgs
          /\ params \in ValidParams
       \/ /\ args \in CheckedArgs
          /\ params \in CheckedParams
    /\ seed \in Seeds
    /\ InitLocals


(* ----------------------- the environment's choices --------------------- *)

\* whether the at-th allocation of the call succeeds; the repeated call
\* meets the environment of the first
AllocOutcomes(at) ==
    IF invocation = 1 THEN {TRUE, FALSE}
    ELSE {~(first.fail.kind = "alloc" /\ first.fail.at = at)}

\* what the at-th read callback invocation returns
ReadOutcomes(at) ==
    IF invocation = 1 THEN {0} \cup ReadErrors
    ELSE {IF first.fail.kind = "read" /\ first.fail.at = at THEN first.fail.e ELSE 0}

\* libfsverity_zalloc(size), where the block it got held the byte g
libfsverity_zalloc(size, g) == memset0(Stale(size, g), 0, size)

\* free(p) for the data pointer of buffers[l]
free_buffer(bufs, hp, l) ==
    CASE bufs[l].data = "NULL" -> hp
      [] bufs[l].data = "heap" ->
            [hp EXCEPT !.buf[l].st = "freed", !.buf[l].frees = @ + 1]
      [] OTHER -> [hp EXCEPT !.bad_free = TRUE]

(* -------------------- libfsverity_compute_digest: entry ---------------- *)

\* only the first reserved field is looked at
reserved_set_first(p) == p.reserved[1] # 0

\* lines 193-198: whether a reserved field is nonzero
reserved_set(p) == \E i \in 1..RESERVED_LEN : p.reserved[i] # 0

\* the hash algorithm is looked up before the other fields are checked
validate_alg_first(a, p) ==
    CASE ~a.read_fn \/ ~a.params \/ ~a.digest_ret ->
            "missing required parameters for compute_digest"
      [] OTHER ->
    CASE libfsverity_find_hash_alg_by_num(p.hash_algorithm) = NoAlg ->
            "unknown hash algorithm: %u"
      [] OTHER ->
    CASE p.version # 1 -> "unsupported version (%u)"
      [] OTHER ->
    CASE ~is_power_of_2(p.block_size) -> "unsupported block size (%u)"
      [] OTHER ->
    CASE p.salt_size > SALT_SIZE -> "unsupported salt size (%u)"
      [] OTHER ->
    CASE p.salt_size # 0 /\ ~p.salt_ptr -> "salt_size specified, but salt is NULL"
      [] OTHER ->
    CASE reserved_set(p) ->
            "reserved bits set in merkle_tree_params"
      [] OTHER -> ""

\* lines 170-205: the checks in their order; the diagnostic of the first
\* check that fails, "" if none does
validate(a, p) ==
    CASE ~a.read_fn \/ ~a.params \/ ~a.digest_ret ->
            "missing required parameters for compute_digest"
      [] OTHER ->
    CASE p.version # 1 -> "unsupported version (%u)"
      [] OTHER ->
    CASE ~is_power_of_2(p.block_size) -> "unsupported block size (%u)"
      [] OTHER ->
    CASE p.salt_size > SALT_SIZE -> "unsupported salt size (%u)"
      [] OTHER ->
    CASE p.salt_size # 0 /\ ~p.salt_ptr -> "salt_size specified, but salt is NULL"
      [] OTHER ->
    CASE reserved_set(p) ->
            "reserved bits set in merkle_tree_params"
      [] OTHER ->
    CASE libfsverity_find_hash_alg_by_num(p.hash_algorithm) = NoAlg ->
            "unknown hash algorithm: %u"
      [] OTHER -> ""

hash_alg == libfsverity_find_hash_alg_by_num(params.hash_algorithm)

Validate ==
    /\ pc = "call"
    /\ hash' = NoCtx
    /\ LET msg == validate(args, params) IN
        IF msg # ""
        THEN /\ trace' = [trace EXCEPT !.msgs = Append(@, msg)]
             /\ ret' = -EINVAL
             /\ pc' = "done"
        ELSE /\ pc' = "create_ctx"
             /\ UNCHANGED <<trace, ret>>
    /\ UNCHANGED <<inputs, desc, num_levels, level, offset, err, padded_salt,
                   buffers, heap, digest, digest_ret, fdpos, invocation, first>>

\* lines 207-209
CreateCtx ==
    /\ pc = "create_ctx"
    /\ \E ok \in AllocOutcomes(trace.allocs + 1) :
        IF ok
        THEN /\ hash' = create_ctx(hash_alg)
             /\ heap' = [heap EXCEPT !.hash.st = "live"]
             /\ trace' = [trace EXCEPT !.allocs = @ + 1]
             /\ pc' = "build_desc"
             /\ ret' = ret
        ELSE /\ trace' = [trace EXCEPT !.allocs = @ + 1,
                            !.fail = [kind |-> "alloc", at |-> trace.allocs + 1, e |-> 0]]
             /\ ret' = -ENOMEM
             /\ pc' = "done"
             /\ UNCHANGED <<hash, heap>>
    /\ UNCHANGED <<inputs, desc, num_levels, level, offset, err, padded_salt,
                   buffers, digest, digest_ret, fdpos, invocation, first>>

\* desc.salt_size is never set
descriptor_init_no_salt_size(mem, p) ==
    LET d0 == memset0(mem, 0, DESC_SIZE)
        d1 == [d0 EXCEPT ![1] = 1, ![2] = p.hash_algorithm,
                         ![3] = ilog2(p.block_size)]
        d2 == memcpy(d1, 8, cpu_to_le64(p.file_size))
    IN  IF p.salt_size # 0
        THEN memcpy(d2, OFF_SALT, Slice(p.salt, 0, p.salt_size))
        ELSE d2

\* lines 211-219, on the bytes mem that the stack frame held
descriptor_init(mem, p) ==
    LET d0 == memset0(mem, 0, DESC_SIZE)
        d1 == [d0 EXCEPT ![1] = 1, ![2] = p.hash_algorithm,
                         ![3] = ilog2(p.block_size)]
        d2 == memcpy(d1, 8, cpu_to_le64(p.file_size))
    IN  IF p.salt_size # 0
        THEN [memcpy(d2, OFF_SALT, Slice(p.salt, 0, p.salt_size))
                EXCEPT ![4] = p.salt_size]
        ELSE d2

BuildDesc ==
    /\ pc = "build_desc"
    /\ \E g \in Garbage : desc' = descriptor_init(Stale(DESC_SIZE, g), params)
    /\ pc' = "root_hash"
    /\ UNCHANGED <<inputs, hash, num_levels, level, offset, err, padded_salt,
                   buffers, heap, digest, digest_ret, ret, fdpos, trace,
                   invocation, first>>


(* --------------------------- hash_one_block ---------------------------- *)

\* the block is hashed as it lies in the buffer, without the zero padding
zero_pad_none(bytes, filled, block_size) == bytes

\* line 48: memset(&cur->data[cur->filled], 0, block_size - cur->filled)
zero_pad(bytes, filled, block_size) == memset0(bytes, filled, block_size - filled)

\* the next level counts as full one digest early
block_full_early(filled, dsz, block_size) == filled + dsz >= block_size

\* line 58: whether the next level's block became full
block_full(filled, dsz, block_size) == filled + dsz > block_size

\* the block is fed before the salt
hash_salted_block_data_first(h, salt, data) ==
    libfsverity_hash_final(
        libfsverity_hash_update(
            libfsverity_hash_update(libfsverity_hash_init(h), data), salt))

\* lines 50-53: init, update(salt), update(cur->data), final; the context
\* after the final (the bytes the final writes are DigestOf of it)
hash_salted_block(h, salt, data) ==
    libfsverity_hash_final(
        libfsverity_hash_update(
            libfsverity_hash_update(libfsverity_hash_init(h), salt), data))

\* the hashed block keeps its watermark
advance_filled_no_reset(bufs, lvl, dsz) ==
    [bufs EXCEPT ![lvl + 1].filled = @ + dsz]

\* lines 55-56: next->filled += digest_size; cur->filled = 0
advance_filled(bufs, lvl, dsz) ==
    [bufs EXCEPT ![lvl + 1].filled = @ + dsz, ![lvl].filled = 0]

\* lines 42-59, for cur = &bufs[lvl]: the hash context, the buffers, the heap
\* and the descriptor after the step, and the value returned.  fault: the
\* step read or wrote outside the memory cur->data or next->data points to.
hash_one_block(h, bufs, hp, d, lvl, block_size, salt, salt_size) ==
    LET cur      == bufs[lvl]
        next     == bufs[lvl + 1]
        dsz      == h.alg.digest_size
        cur_ok   == /\ cur.data = "heap"
                    /\ hp.buf[lvl].st = "live"
                    /\ cur.filled <= block_size
                    /\ Len(hp.buf[lvl].bytes) >= block_size
        next_ok  == CASE next.data = "heap" ->
                            /\ hp.buf[lvl + 1].st = "live"
                            /\ next.filled + dsz <= Len(hp.buf[lvl + 1].bytes)
                      [] next.data = "root_hash" ->
                            OFF_ROOT_HASH + next.filled + dsz <= DESC_SIZE
                      [] OTHER -> FALSE
        data     == zero_pad(hp.buf[lvl].bytes, cur.filled, block_size)
        h4       == hash_salted_block(h, Slice(salt, 0, salt_size),
                                      Slice(data, 0, block_size))
        out      == DigestOf(h4)
        hp1      == [hp EXCEPT !.buf[lvl].bytes = data]
        hp2      == IF next.data = "heap"
                    THEN [hp1 EXCEPT !.buf[lvl + 1].bytes = memcpy(@, next.filled, out)]
                    ELSE hp1
        d2       == IF next.data = "root_hash"
                    THEN memcpy(d, OFF_ROOT_HASH + next.filled, out)
                    ELSE d
        bufs2    == advance_filled(bufs, lvl, dsz)
    IN  IF cur_ok /\ next_ok
        THEN [fault |-> FALSE, hash |-> h4, buffers |-> bufs2, heap |-> hp2,
              desc |-> d2, full |-> block_full(bufs2[lvl + 1].filled, dsz, block_size)]
        ELSE [fault |-> TRUE, hash |-> h, buffers |-> bufs, heap |-> hp,
              desc |-> d, full |-> FALSE]

(* -------------------------- compute_root_hash -------------------------- *)

block_size == params.block_size

digest_size == hash_alg.digest_size

\* line 70
hashes_per_block == block_size \div digest_size

\* line 71
padded_salt_size == roundup(params.salt_size, hash_alg.block_size)

\* the array is left as the stack frame held it
buffers_at_entry_stale(stale) == stale

\* line 76: struct block_buffer _buffers[...] = {}, in a frame that held stale
buffers_at_entry(stale) == EmptyBuffers

\* the empty file takes the path of every other file
is_empty_file_never(file_size) == FALSE

\* line 82
is_empty_file(file_size) == file_size = 0

\* lines 70-92: the locals, the empty file, the padded salt
RootHashEntry ==
    /\ pc = "root_hash"
    /\ num_levels' = 0
    /\ buffers' = buffers_at_entry(buffers)
    /\ IF is_empty_file(params.file_size)
       THEN /\ desc' = memset0(desc, OFF_ROOT_HASH, digest_size)
            /\ err' = 0
            /\ pc' = "returned"
            /\ padded_salt' = << >>
            /\ UNCHANGED <<heap, trace>>
       ELSE IF params.salt_size # 0
       THEN \E ok \in AllocOutcomes(trace.allocs + 1) : \E g \in Garbage :
            IF ok
            THEN /\ padded_salt' = memcpy(libfsverity_zalloc(padded_salt_size, g), 0,
                                          Slice(params.salt, 0, params.salt_size))
                 /\ heap' = [heap EXCEPT !.salt.st = "live"]
                 /\ trace' = [trace EXCEPT !.allocs = @ + 1]
                 /\ err' = 0
                 /\ pc' = "levels"
                 /\ desc' = desc
            ELSE /\ trace' = [trace EXCEPT !.allocs = @ + 1,
                                !.fail = [kind |-> "alloc", at |-> trace.allocs + 1, e |-> 0]]
                 /\ err' = -ENOMEM
                 /\ pc' = "returned"
                 /\ padded_salt' = << >>
                 /\ UNCHANGED <<heap, desc>>
       ELSE /\ padded_salt' = << >>
            /\ err' = 0
            /\ pc' = "levels"
            /\ UNCHANGED <<heap, desc, trace>>
    /\ UNCHANGED <<inputs, hash, level, offset, digest, digest_ret, ret, fdpos,
                   invocation, first>>

\* the loop stops one level past the limit, without failing
RECURSIVE count_levels_capped(_, _, _)
count_levels_capped(blocks, hpb, n) ==
    IF blocks <= 1 \/ n > FS_VERITY_MAX_LEVELS THEN n
    ELSE count_levels_capped(DIV_ROUND_UP(blocks, hpb), hpb, n + 1)

\* the quotient is rounded down
RECURSIVE count_levels_floor(_, _, _)
count_levels_floor(blocks, hpb, n) ==
    IF blocks <= 1 THEN n
    ELSE IF n >= FS_VERITY_MAX_LEVELS THEN -1
    ELSE count_levels_floor(blocks \div hpb, hpb, n + 1)

\* lines 95-102 once the division is defined (hpb > 0): the number of levels,
\* or -1 when the WARN_ON at FS_VERITY_MAX_LEVELS fires
RECURSIVE count_levels(_, _, _)
count_levels(blocks, hpb, n) ==
    IF blocks <= 1 THEN n
    ELSE IF n >= FS_VERITY_MAX_LEVELS THEN -1
    ELSE count_levels(DIV_ROUND_UP(blocks, hpb), hpb, n + 1)

\* lines 94-102.  With hashes_per_block = 0 and more than one block the
\* division of line 96 is a division by zero: the call faults, or, where the
\* divide instruction yields 0, the loop ends after one level.
ComputeLevels ==
    /\ pc = "levels"
    /\ LET blocks == DIV_ROUND_UP(params.file_size, block_size) IN
        /\ trace' = [trace EXCEPT !.blocks = blocks]
        /\ IF blocks > 1 /\ hashes_per_block = 0
           THEN \/ /\ pc' = "fault"
                   /\ UNCHANGED <<num_levels, err, level>>
                \/ /\ num_levels' = 1
                   /\ level' = -1
                   /\ pc' = "alloc"
                   /\ err' = err
           ELSE LET n == count_levels(blocks, hashes_per_block, 0) IN
                IF n < 0
                THEN /\ num_levels' = FS_VERITY_MAX_LEVELS
                     /\ err' = -EINVAL
                     /\ pc' = "out"
                     /\ level' = level
                ELSE /\ num_levels' = n
                     /\ level' = -1
                     /\ pc' = "alloc"
                     /\ err' = err
    /\ UNCHANGED <<inputs, hash, desc, offset, padded_salt, buffers, heap,
                   digest, digest_ret, ret, fdpos, invocation, first>>

\* lines 109-115: one iteration of the allocation loop
AllocBuffer ==
    /\ pc = "alloc"
    /\ level < num_levels
    /\ \E ok \in AllocOutcomes(trace.allocs + 1) : \E g \in Garbage :
        IF ok
        THEN /\ buffers' = [buffers EXCEPT ![level].data = "heap"]
             /\ heap' = [heap EXCEPT !.buf[level] =
                            [st |-> "live", frees |-> 0,
                             bytes |-> libfsverity_zalloc(block_size, g)]]
             /\ trace' = [trace EXCEPT !.allocs = @ + 1]
             /\ level' = level + 1
             /\ UNCHANGED <<err, pc>>
        ELSE /\ trace' = [trace EXCEPT !.allocs = @ + 1,
                            !.fail = [kind |-> "alloc", at |-> trace.allocs + 1, e |-> 0]]
             /\ err' = -ENOMEM
             /\ pc' = "out"
             /\ UNCHANGED <<buffers, heap, level>>
    /\ UNCHANGED <<inputs, hash, desc, num_levels, offset, padded_salt,
                   digest, digest_ret, ret, fdpos, invocation, first>>

\* line 116, and the initialisation of the loop of line 119
SetRootSink ==
    /\ pc = "alloc"
    /\ ~(level < num_levels)
    /\ buffers' = [buffers EXCEPT ![num_levels].data = "root_hash"]
    /\ offset' = 0
    /\ pc' = "stream"
    /\ UNCHANGED <<inputs, hash, desc, num_levels, level, err, padded_salt, heap,
                   digest, digest_ret, ret, fdpos, trace, invocation, first>>


\* the count bytes the read callback delivers from position pos of the file
FileBytes(pos, count) == [i \in 1..count |-> ContentByte(seed, pos + i - 1)]

\* every read asks for a whole block
read_count_whole(bs, file_size, off) == bs

\* line 120: the number of bytes to read at offset
read_count(bs, file_size, off) == Min(bs, file_size - off)

\* only a negative return value counts as a failure
read_failed_negative(e) == e < 0

\* line 123: if (err)
read_failed(e) == e # 0

\* lines 119-126: the loop test holds; one read of the next block.  The
\* callback delivers the next n bytes of the file and returns 0, or returns
\* e # 0; what it returned is recorded in trace whatever the code makes of it.
ReadBlock ==
    /\ pc = "stream"
    /\ offset < params.file_size
    /\ LET n  == read_count(block_size, params.file_size, offset)
           at == Len(trace.reads) + 1
       IN
        /\ buffers' = [buffers EXCEPT ![-1].filled = n]
        /\ \E e \in ReadOutcomes(at) :
            IF ~read_failed(e)
            THEN /\ heap' = IF e = 0
                            THEN [heap EXCEPT !.buf[-1].bytes =
                                                memcpy(@, 0, FileBytes(fdpos, n))]
                            ELSE heap
                 /\ fdpos' = IF e = 0 THEN fdpos + n ELSE fdpos
                 /\ trace' = [trace EXCEPT
                                !.reads = Append(@, <<offset, n>>),
                                !.fail = IF e = 0 THEN @
                                         ELSE [kind |-> "read", at |-> at, e |-> e],
                                !.at_fail = IF e = 0 THEN @
                                            ELSE <<at, trace.hash_steps>>]
                 /\ level' = -1
                 /\ pc' = "hash"
                 /\ err' = e
            ELSE /\ trace' = [trace EXCEPT
                                !.reads = Append(@, <<offset, n>>),
                                !.msgs = Append(@, "error reading file"),
                                !.fail = [kind |-> "read", at |-> at, e |-> e],
                                !.at_fail = <<at, trace.hash_steps>>]
                 /\ err' = e
                 /\ pc' = "out"
                 /\ UNCHANGED <<heap, fdpos, level>>
    /\ UNCHANGED <<inputs, hash, desc, num_levels, offset, padded_salt,
                   digest, digest_ret, ret, invocation, first>>

\* line 119: the loop test fails
StreamDone ==
    /\ pc = "stream"
    /\ ~(offset < params.file_size)
    /\ level' = 0
    /\ pc' = "flush"
    /\ UNCHANGED <<inputs, hash, desc, num_levels, offset, err, padded_salt,
                   buffers, heap, digest, digest_ret, ret, fdpos, trace,
                   invocation, first>>

\* lines 128-137: one evaluation of the while condition and what follows it
HashLoop ==
    /\ pc = "hash"
    /\ LET r == hash_one_block(hash, buffers, heap, desc, level, block_size,
                               padded_salt, padded_salt_size)
       IN
        IF r.fault
        THEN /\ pc' = "fault"
             /\ UNCHANGED <<hash, buffers, heap, desc, trace, level, offset, err>>
        ELSE /\ hash' = r.hash
             /\ buffers' = r.buffers
             /\ heap' = r.heap
             /\ desc' = r.desc
             /\ trace' = [trace EXCEPT !.hash_steps = @ + 1]
             /\ IF r.full
                THEN /\ level' = level + 1
                     /\ offset' = offset
                     /\ IF level + 1 >= num_levels
                        THEN err' = -EINVAL /\ pc' = "out"
                        ELSE err' = err /\ pc' = "hash"
                ELSE /\ offset' = (offset + block_size) % U64
                     /\ pc' = "stream"
                     /\ UNCHANGED <<level, err>>
    /\ UNCHANGED <<inputs, num_levels, padded_salt, digest, digest_ret, ret,
                   fdpos, invocation, first>>

\* lines 139-143: one iteration of the flush loop
Flush ==
    /\ pc = "flush"
    /\ level < num_levels
    /\ IF buffers[level].filled # 0
       THEN LET r == hash_one_block(hash, buffers, heap, desc, level, block_size,
                                    padded_salt, padded_salt_size)
            IN
             IF r.fault
             THEN /\ pc' = "fault"
                  /\ UNCHANGED <<hash, buffers, heap, desc, trace, level>>
             ELSE /\ hash' = r.hash
                  /\ buffers' = r.buffers
                  /\ heap' = r.heap
                  /\ desc' = r.desc
                  /\ trace' = [trace EXCEPT !.hash_steps = @ + 1]
                  /\ level' = level + 1
                  /\ pc' = pc
       ELSE /\ level' = level + 1
            /\ UNCHANGED <<hash, buffers, heap, desc, trace, pc>>
    /\ UNCHANGED <<inputs, num_levels, offset, err, padded_salt, digest,
                   digest_ret, ret, fdpos, invocation, first>>

\* lines 139, 145-150: the flush loop ends; the check of the root sink
PostCheck ==
    /\ pc = "flush"
    /\ ~(level < num_levels)
    /\ err' = IF buffers[num_levels].filled # digest_size THEN -EINVAL ELSE 0
    /\ pc' = "out"
    /\ UNCHANGED <<inputs, hash, desc, num_levels, level, offset, padded_salt,
                   buffers, heap, digest, digest_ret, ret, fdpos, trace,
                   invocation, first>>

\* free(buffers[l].data) for l = from .. n - 1
RECURSIVE free_levels(_, _, _, _)
free_levels(bufs, hp, from, n) ==
    IF from < n THEN free_levels(bufs, free_buffer(bufs, hp, from), from + 1, n)
    ELSE hp

\* the loop starts at level 0 and leaves the data buffer allocated
free_all_buffers_from0(bufs, hp, n) == free_levels(bufs, hp, 0, n)

\* lines 152-153: for (level = -1; level < num_levels; level++) free(...)
free_all_buffers(bufs, hp, n) == free_levels(bufs, hp, -1, n)

\* lines 151-155: the out label of compute_root_hash
Cleanup ==
    /\ pc = "out"
    /\ LET hp == free_all_buffers(buffers, heap, num_levels) IN
        heap' = IF padded_salt # << >>
                THEN [hp EXCEPT !.salt.st = "freed", !.salt.frees = @ + 1]
                ELSE hp
    /\ level' = num_levels
    /\ pc' = "returned"
    /\ UNCHANGED <<inputs, hash, desc, num_levels, offset, err, padded_salt,
                   buffers, digest, digest_ret, ret, fdpos, trace, invocation,
                   first>>

(* -------------------- libfsverity_compute_digest: exit ----------------- *)

\* the digest record is allocated and stored to *digest_ret before the
\* result of compute_root_hash is looked at
AfterRootHash_store_early ==
    /\ pc = "returned"
    /\ \E ok \in AllocOutcomes(trace.allocs + 1) :
        IF ok
        THEN /\ digest' = [digest_algorithm |-> params.hash_algorithm,
                           digest_size |-> hash_alg.digest_size,
                           digest |-> IF err = 0
                                      THEN libfsverity_hash_full(hash, desc)
                                      ELSE Zeros(hash_alg.digest_size)]
             /\ hash' = IF err = 0 THEN HashFullCtx(hash, desc) ELSE hash
             /\ heap' = [heap EXCEPT !.digest.st = "live"]
             /\ digest_ret' = "digest"
             /\ trace' = [trace EXCEPT !.allocs = @ + 1, !.slot_writes = @ + 1]
             /\ err' = err
             /\ pc' = "free_ctx"
        ELSE /\ trace' = [trace EXCEPT !.allocs = @ + 1,
                            !.fail = IF err = 0
                                     THEN [kind |-> "alloc", at |-> trace.allocs + 1, e |-> 0]
                                     ELSE @]
             /\ err' = IF err = 0 THEN -ENOMEM ELSE err
             /\ pc' = "free_ctx"
             /\ UNCHANGED <<hash, heap, digest, digest_ret>>
    /\ UNCHANGED <<inputs, desc, num_levels, level, offset, padded_salt,
                   buffers, ret, fdpos, invocation, first>>

\* lines 224-236
AfterRootHash ==
    /\ pc = "returned"
    /\ IF err # 0
       THEN /\ pc' = "free_ctx"
            /\ UNCHANGED <<hash, heap, digest, digest_ret, err, trace>>
       ELSE \E ok \in AllocOutcomes(trace.allocs + 1) :
            IF ok
            THEN /\ digest' = [digest_algorithm |-> params.hash_algorithm,
                               digest_size |-> hash_alg.digest_size,
                               digest |-> libfsverity_hash_full(hash, desc)]
                 /\ hash' = HashFullCtx(hash, desc)
                 /\ heap' = [heap EXCEPT !.digest.st = "live"]
                 /\ digest_ret' = "digest"
                 /\ trace' = [trace EXCEPT !.allocs = @ + 1, !.slot_writes = @ + 1]
                 /\ err' = 0
                 /\ pc' = "free_ctx"
            ELSE /\ trace' = [trace EXCEPT !.allocs = @ + 1,
                                !.fail = [kind |-> "alloc", at |-> trace.allocs + 1, e |-> 0]]
                 /\ err' = -ENOMEM
                 /\ pc' = "free_ctx"
                 /\ UNCHANGED <<hash, heap, digest, digest_ret>>
    /\ UNCHANGED <<inputs, desc, num_levels, level, offset, padded_salt,
                   buffers, ret, fdpos, invocation, first>>

\* lines 237-239: the out label
FreeCtx ==
    /\ pc = "free_ctx"
    /\ heap' = IF hash.st # "null"
               THEN [heap EXCEPT !.hash.st = "freed", !.hash.frees = @ + 1]
               ELSE heap
    /\ ret' = err
    /\ pc' = "done"
    /\ UNCHANGED <<inputs, hash, desc, num_levels, level, offset, err,
                   padded_salt, buffers, digest, digest_ret, fdpos, trace,
                   invocation, first>>

\* The caller makes the same call again, with a fresh output slot and the
\* file rewound; the locals of the new call start as the stack was left.
Reinvoke ==
    /\ pc = "done"
    /\ invocation = 1
    /\ first' = [ret |-> ret,
                 digest |-> IF digest_ret = "digest" THEN digest ELSE NoDigest,
                 fail |-> trace.fail]
    /\ invocation' = 2
    /\ pc' = "call"
    /\ heap' = EmptyHeap
    /\ trace' = EmptyTrace
    /\ digest_ret' = "caller"
    /\ fdpos' = 0
    /\ ret' = 0
    /\ UNCHANGED <<inputs, hash, desc, num_levels, level, offset, err,
                   padded_salt, buffers, digest>>

(* --------------------------- specifications ---------------------------- *)

Next ==
    \/ Validate
    \/ CreateCtx
    \/ BuildDesc
    \/ RootHashEntry
    \/ ComputeLevels
    \/ AllocBuffer
    \/ SetRootSink
    \/ ReadBlock
    \/ StreamDone
    \/ HashLoop
    \/ Flush
    \/ PostCheck
    \/ Cleanup
    \/ AfterRootHash
    \/ FreeCtx

Spec == Init /\ [][Next]_vars

\* the calls that are made twice
RepeatParams ==
    UNION { { [version |-> v, hash_algorithm |-> 1, block_size |-> bs,
               salt_size |-> ss, salt_ptr |-> (ss # 0), salt |-> SaltBytes(ss),
               reserved |-> ZeroReserved, file_size |-> fs] :
                 v \in {1, 2}, ss \in {0, 1}, fs \in FileSizes(bs) } :
            bs \in {32, 64} }

InitRepeat ==
    /\ args = AllArgs
    /\ params \in RepeatParams
    /\ seed \in Seeds
    /\ InitLocals

NextRepeat == Next \/ Reinvoke

SpecRepeat == InitRepeat /\ [][NextRepeat]_vars


\* The calls on large files: valid parameters (at least two digests per
\* block), file sizes around every power of hashes_per_block blocks and at
\* the top of the u64 range, where file_size + block_size exceeds the range.
WideAlgBlock == {<<1, 64>>, <<1, 128>>, <<2, 128>>}

WideSizes(bs, hpb) ==
    { fs \in {U64 - 1, U64 - bs + 1, U64 - bs, U64 - bs - 1}
               \cup {hpb^L * bs + d : L \in 0..(WordBits - 6), d \in {0, 1}} :
        fs >= 1 /\ fs < U64 }

WideParams ==
    UNION { { [version |-> 1, hash_algorithm |-> ab[1], block_size |-> ab[2],
               salt_size |-> ss, salt_ptr |-> (ss # 0), salt |-> SaltBytes(ss),
               reserved |-> ZeroReserved, file_size |-> fs] :
                 ss \in {0, 1},
                 fs \in WideSizes(ab[2],
                        ab[2] \div libfsverity_find_hash_alg_by_num(ab[1]).digest_size) } :
            ab \in WideAlgBlock }

InitWide ==
    /\ args = AllArgs
    /\ params \in WideParams
    /\ seed \in Seeds
    /\ InitLocals

SpecWide == InitWide /\ [][Next]_vars


(* ------------------- the reference Merkle tree (C1) -------------------- *)

\* bytes followed by zeros up to n bytes
PadTo(bytes, n) == bytes \o Zeros(n - Len(bytes))

\* the salt prefix of every hashed block: the salt, zero-extended to a
\* multiple of the algorithm's block size; empty without a salt
RefSalt ==
    IF params.salt_size = 0 THEN << >>
    ELSE PadTo(SaltBytes(params.salt_size),
               hash_alg.block_size
                 * ((params.salt_size + hash_alg.block_size - 1) \div hash_alg.block_size))

\* the salted hash of one zero-padded block
RefHash(block) ==
    libfsverity_hash_full(create_ctx(hash_alg), RefSalt \o PadTo(block, block_size))

RefBlocks == (params.file_size + block_size - 1) \div block_size

\* data block k (from 1) of the file, unpadded
RefDataBlock(k) ==
    LET start == (k - 1) * block_size
        n     == IF params.file_size - start < block_size
                 THEN params.file_size - start ELSE block_size
    IN  [i \in 1..n |-> ContentByte(seed, start + i - 1)]

\* the digests ds[from..to], concatenated
RECURSIVE RefConcat(_, _, _)
RefConcat(ds, from, to) ==
    IF from > to THEN << >> ELSE ds[from] \o RefConcat(ds, from + 1, to)

\* the level above the level whose digests are ds
RefLevelAbove(ds) ==
    LET hpb == block_size \div digest_size
        n   == (Len(ds) + hpb - 1) \div hpb
    IN  [j \in 1..n |->
            RefHash(RefConcat(ds, (j - 1) * hpb + 1,
                              IF j * hpb < Len(ds) THEN j * hpb ELSE Len(ds)))]

RECURSIVE RefTop(_)
RefTop(ds) == IF Len(ds) = 1 THEN ds[1] ELSE RefTop(RefLevelAbove(ds))

RefRoot == RefTop([k \in 1..RefBlocks |-> RefHash(RefDataBlock(k))])

\* what the root sink holds: the first digest_size bytes of desc.root_hash
RootSink == Slice(desc, OFF_ROOT_HASH, digest_size)

\* compute_root_hash was called and has returned
RootHashReturned ==
    pc \in {"returned", "free_ctx"} \/ (pc = "done" /\ heap.hash.st # "none")

\* the parameters pass the validation
Passed == validate(args, params) = ""

\* the parameters pass the validation and at least two digests fit in a block
ValidTree == Passed /\ block_size >= 2 * digest_size

(* -------------------------------- claims ------------------------------- *)

\* C1: for a nonempty file and valid parameters (at least two digests per
\* block), when compute_root_hash has returned 0 the root sink holds the root
\* of the reference Merkle tree built level by level.
C1_StreamingEqualsReference ==
    (/\ RootHashReturned
     /\ err = 0
     /\ ValidTree
     /\ params.file_size > 0)
        => RootSink = RefRoot

\* a three-level tree over a file that ends in a partial block, with a salt
C1_Witness ==
    /\ pc = "returned"
    /\ err = 0
    /\ num_levels = 3
    /\ params.file_size % block_size = 1
    /\ params.salt_size = 1
    /\ trace.hash_steps > 5

\* C2: the read callback is invoked at the offsets 0, block_size,
\* 2*block_size, ... in this order, each time for min(block_size, file_size -
\* offset) bytes; when the streaming loop has run to its end (no read failed)
\* there were ceil(file_size / block_size) reads and they delivered file_size
\* bytes.
RECURSIVE SumCounts(_, _)
SumCounts(reads, i) == IF i > Len(reads) THEN 0 ELSE reads[i][2] + SumCounts(reads, i + 1)

RefDescriptor(root) ==
    <<1, params.hash_algorithm,
      CHOOSE k \in 0..12 : 2^k = params.block_size,
      params.salt_size>>
      \o Zeros(4)
      \o [j \in 1..8 |-> IF j <= 4 THEN (params.file_size \div 256^(j - 1)) % 256 ELSE 0]
      \o PadTo(root, ROOT_HASH_SIZE)
      \o PadTo(SaltBytes(params.salt_size), SALT_SIZE)
      \o Zeros(144)

\* C3: for an empty file that passes validation the root hash in the
\* descriptor is digest_size zero bytes, the read callback is never invoked,
\* neither a level buffer nor a padded salt is allocated, no block-hash step
\* runs, and the digest returned is hash_full of the descriptor with a zero
\* root hash.
C3_EmptyFile ==
    (Passed /\ params.file_size = 0) =>
        /\ trace.reads = << >>
        /\ fdpos = 0
        /\ trace.hash_steps = 0
        /\ heap.salt.st = "none"
        /\ \A l \in BufferIndex : heap.buf[l].st = "none" /\ buffers[l].data = "NULL"
        /\ pc \notin {"levels", "alloc", "stream", "hash", "flush", "out", "fault"}
        /\ RootHashReturned =>
              /\ err \in {0, -ENOMEM}
              /\ Slice(desc, OFF_ROOT_HASH, ROOT_HASH_SIZE) = Zeros(ROOT_HASH_SIZE)
        /\ (pc = "done" /\ ret = 0) =>
              /\ digest_ret = "digest"
              /\ digest.digest =
                    libfsverity_hash_full(create_ctx(hash_alg), RefDescriptor(Zeros(digest_size)))

C3_Witness ==
    /\ pc = "done"
    /\ ret = 0
    /\ params.file_size = 0
    /\ params.salt_size = 32
    /\ digest_ret = "digest"

\* some validation check of the call fails
SomeCheckFails ==
    \/ ~args.read_fn \/ ~args.params \/ ~args.digest_ret
    \/ params.version # 1
    \/ ~(\E k \in 0..30 : params.block_size = 2^k)
    \/ params.salt_size > 32
    \/ (params.salt_size > 0 /\ ~params.salt_ptr)
    \/ \E i \in 1..RESERVED_LEN : params.reserved[i] # 0
    \/ params.hash_algorithm \notin {1, 2}

\* C4: when a validation check fails the call returns -EINVAL, and it has
\* not invoked the read callback, created a hash context or allocated
\* anything.
C4_ValidationFailure ==
    SomeCheckFails =>
        /\ pc \in {"call", "done"}
        /\ pc = "done" => ret = -EINVAL
        /\ trace.reads = << >>
        /\ trace.allocs = 0
        /\ hash.st = "null"
        /\ heap = EmptyHeap
        /\ digest_ret = "caller"

\* only the last reserved field is wrong
C4_Witness ==
    /\ pc = "done"
    /\ ret = -EINVAL
    /\ args = AllArgs
    /\ params.version = 1
    /\ params.block_size = 64
    /\ params.hash_algorithm = 1
    /\ params.salt_size = 1 /\ params.salt_ptr
    /\ params.reserved[RESERVED_LEN] # 0
    /\ params.reserved[1] = 0

\* C5: when the read callback returns a nonzero e the call returns e, and
\* after the failing invocation there is no further read and no further
\* block-hash step.
C5_ReadError ==
    trace.fail.kind = "read" =>
        /\ trace.fail.e # 0
        /\ Len(trace.reads) = trace.at_fail[1]
        /\ trace.hash_steps = trace.at_fail[2]
        /\ pc \in {"out", "returned", "free_ctx", "done"}
        /\ err = trace.fail.e
        /\ pc = "done" => ret = trace.fail.e

\* a positive error code on a middle block
C5_Witness ==
    /\ pc = "done"
    /\ trace.fail.kind = "read"
    /\ trace.fail.at = 3
    /\ Len(trace.reads) < RefBlocks
    /\ ret = 7

\* C6: on a failing return *digest_ret is as the caller left it and no digest
\* record is allocated; *digest_ret is stored to at most once, and only on
\* the path that returns 0.
C6_NoPartialDigest ==
    /\ (pc = "done" /\ ret # 0) =>
          /\ digest_ret = "caller"
          /\ trace.slot_writes = 0
          /\ heap.digest.st = "none"
    /\ trace.slot_writes <= 1
    /\ trace.slot_writes = 1 =>
          /\ pc \in {"free_ctx", "done"}
          /\ err = 0
          /\ digest_ret = "digest"
          /\ heap.digest.st = "live"
          /\ pc = "done" => ret = 0
    /\ (pc = "done" /\ ret = 0) => trace.slot_writes = 1

\* a failing return through an internal guard, after blocks were hashed
C6_Witness ==
    /\ pc = "done"
    /\ ret = -EINVAL
    /\ trace.hash_steps > 0
    /\ trace.fail.kind = "none"

\* a heap block is not held, and was freed once if it was ever allocated
Released(b) == b.st # "live" /\ b.frees = (IF b.st = "freed" THEN 1 ELSE 0)

\* C7: at every return every level buffer, the padded salt and the hash
\* context were released exactly once if they were acquired; nothing is
\* freed twice, and the root sink is never freed.
C7_ResourcesReleased ==
    /\ ~heap.bad_free
    /\ heap.hash.frees <= 1 /\ heap.salt.frees <= 1
    /\ \A l \in BufferIndex : heap.buf[l].frees <= 1
    /\ pc = "done" =>
          /\ Released(heap.hash)
          /\ Released(heap.salt)
          /\ \A l \in BufferIndex : Released(heap.buf[l])
          /\ heap.digest.frees = 0

\* an allocation failure at level 1: the data buffer, level 0 and the salt
\* were released, level 1 never existed
C7_Witness ==
    /\ pc = "done"
    /\ ret = -ENOMEM
    /\ num_levels >= 2
    /\ heap.buf[-1].st = "freed"
    /\ heap.buf[0].st = "freed"
    /\ heap.buf[1].st = "none"
    /\ heap.salt.st = "freed"
    /\ heap.hash.st = "freed"

\* C8: on success the digest is one hash_full over the 256-byte descriptor
\* with version 1, the parameters' hash_algorithm and salt_size, log2 of the
\* block size, the file size, the builder's root digest zero-padded to 64
\* bytes, the salt zero-padded to 32 bytes, and zero sig_size and reserved
\* bytes.
C8_DigestOfDescriptor ==
    (pc = "done" /\ ret = 0) =>
        /\ Len(desc) = DESC_SIZE
        /\ desc = RefDescriptor(RootSink)
        /\ digest.digest =
              libfsverity_hash_full(create_ctx(hash_alg), RefDescriptor(RootSink))
        /\ digest.digest_algorithm = params.hash_algorithm
        /\ digest.digest_size = digest_size
        /\ Len(digest.digest) = digest_size

C8_Witness ==
    /\ pc = "done"
    /\ ret = 0
    /\ params.file_size > block_size
    /\ params.salt_size = 1
    /\ params.hash_algorithm = 2

C10_Deterministic ==
    (invocation = 2 /\ pc = "done") =>
        /\ ret = first.ret
        /\ trace.fail = first.fail
        /\ (ret = 0) => (digest_ret = "digest" /\ digest = first.digest)
        /\ (ret # 0) => digest_ret = "caller"

C10_Witness ==
    /\ invocation = 2
    /\ pc = "done"
    /\ ret = 0
    /\ num_levels = 3
    /\ first.digest = digest

\* compute_root_hash is running (from its level loop to its out label)
InBuilder == pc \in {"levels", "alloc", "stream", "hash", "flush", "out"}

\* the watermarks of the buffer stack are within the bounds the data model
\* gives them
FilledWithinBlock ==
    /\ buffers[-1].filled <= block_size
    /\ \A l \in 0..FS_VERITY_MAX_LEVELS :
          /\ buffers[l].filled % digest_size = 0
          /\ buffers[l].filled <= block_size

\* C11: at every point of the builder's execution every buffer at level >= 0
\* has filled a multiple of digest_size and at most block_size, and the data
\* buffer has filled at most block_size.
C11_FilledWithinBlock ==
    (Passed /\ InBuilder) => FilledWithinBlock

\* C11, for the calls in which at least one digest fits in a block: what the
\* code keeps of the claim.
C11_FilledWithinBlock_DigestFits ==
    (Passed /\ InBuilder /\ block_size >= digest_size) => FilledWithinBlock

\* an internal guard fired: the WARN_ON of the level loop, of the streaming
\* loop or of the check of the root sink set err
GuardFired == pc = "out" /\ err = -EINVAL

\* the offset counter can pass the end of the file without wrapping
BelowWrap == params.file_size + block_size <= U64

\* C12: for valid parameters and every file size no internal guard fires:
\* when hash_one_block returns true in the streaming loop the incremented
\* level is below num_levels, and the call does not return -EINVAL.
C12_GuardNeverFires ==
    (ValidTree /\ params.file_size > 0) =>
        /\ ~GuardFired
        /\ pc = "hash" => level < num_levels
        /\ pc = "done" => ret # -EINVAL

\* C12, for the file sizes below the top block of the u64 range: what the
\* code keeps of the claim.
C12_GuardNeverFires_BelowWrap ==
    BelowWrap => C12_GuardNeverFires

\* the number of levels a file of that many blocks needs, counted as far as
\* FS_VERITY_MAX_LEVELS + 1 (for hashes_per_block >= 1)
RECURSIVE LevelsNeeded(_, _)
LevelsNeeded(blocks, n) ==
    IF blocks <= 1 \/ n > FS_VERITY_MAX_LEVELS THEN n
    ELSE LevelsNeeded((blocks + hashes_per_block - 1) \div hashes_per_block, n + 1)

TooManyLevels ==
    /\ params.file_size > 0
    /\ hashes_per_block >= 1
    /\ LevelsNeeded(RefBlocks, 0) > FS_VERITY_MAX_LEVELS

\* a slot of the buffer array was written to, or a level buffer allocated
SlotUsed(l) ==
    buffers[l].data # "NULL" \/ buffers[l].filled # 0 \/ heap.buf[l].st # "none"

\* C13: num_levels never exceeds FS_VERITY_MAX_LEVELS.  When the file needs
\* more levels, the call fails with -EINVAL and has neither allocated a level
\* buffer nor invoked the read callback; otherwise every buffer index used is
\* in -1..num_levels, inside the array of FS_VERITY_MAX_LEVELS + 2 slots.
C13_LevelsBounded ==
    Passed =>
        /\ num_levels \in 0..FS_VERITY_MAX_LEVELS
        /\ TooManyLevels =>
              /\ \A l \in BufferIndex : ~SlotUsed(l)
              /\ trace.reads = << >>
              /\ pc \notin {"alloc", "stream", "hash", "flush", "fault"}
              /\ (pc = "done" /\ trace.fail.kind = "none") => ret = -EINVAL
        /\ ~TooManyLevels =>
              /\ pc = "alloc" => (level >= -1 /\ level <= num_levels)
              /\ pc = "hash" => (level >= -1 /\ level < num_levels)
              /\ pc = "flush" => (level >= 0 /\ level <= num_levels)
              /\ \A l \in BufferIndex : SlotUsed(l) => l <= num_levels

\* one hash per block and two blocks: the level loop ran into the limit,
\* after the padded salt was allocated
C13_Witness ==
    /\ pc = "done"
    /\ ret = -EINVAL
    /\ Passed
    /\ TooManyLevels
    /\ num_levels = FS_VERITY_MAX_LEVELS
    /\ heap.salt.st = "freed"
    /\ trace.blocks = 2

\* the step taken is a block-hash step: hash_one_block ran on buffers[level]
HashStep == trace'.hash_steps = trace.hash_steps + 1

\* the state the hash of the salt-prefixed block leaves in a context
RefCtxAfter(block) ==
    Absorb(Absorb(libfsverity_hash_init(create_ctx(hash_alg)).acc, RefSalt), block)

\* C14: the hash context is never given an update or a final without an
\* init since the last final; every block-hash step, in the streaming loop
\* and in the flush phase, at every level, is init, update(padded salt),
\* update(the block_size bytes of the block), final: the context ends
\* finalised, having been fed the padded salt and then the block.
C14_HashSequence ==
    [][ /\ ~hash'.misuse
        /\ HashStep =>
              /\ hash'.st = "final"
              /\ hash'.fed = <<padded_salt_size, block_size>>
              /\ hash'.acc = RefCtxAfter(Slice(heap'.buf[level].bytes, 0, block_size))
      ]_vars

\* the flush phase has hashed an interior block of a salted tree
C14_Witness ==
    /\ pc = "flush"
    /\ level >= 2
    /\ trace.hash_steps > Len(trace.reads) + 1
    /\ params.salt_size = 32
    /\ hash.st = "final"
    /\ hash.fed = <<padded_salt_size, block_size>>
    /\ ~hash.misuse

\* mem and mem2 agree outside the n bytes that start at offset off
SameOutside(mem, mem2, off, n) ==
    /\ Len(mem2) = Len(mem)
    /\ \A i \in 1..Len(mem) : (i <= off \/ i > off + n) => mem2[i] = mem[i]

\* C15: a block-hash step on buffers[level] appends one digest, the hash of
\* the padded salt and the block, to buffers[level + 1] at its previous
\* filled offset and raises that filled by digest_size; it resets
\* buffers[level].filled to 0; it changes neither the watermark nor the
\* contents of any other buffer, nor any other byte of buffers[level + 1];
\* in the streaming loop it is followed by level + 1 exactly when the new
\* buffers[level + 1].filled + digest_size exceeds block_size.
C15_StepFrame ==
    [][ HashStep =>
          LET old == buffers[level + 1].filled
              H   == DigestOf([create_ctx(hash_alg) EXCEPT
                        !.acc = RefCtxAfter(Slice(heap'.buf[level].bytes, 0, block_size))])
          IN
          /\ buffers'[level + 1] = [buffers[level + 1] EXCEPT !.filled = old + digest_size]
          /\ buffers'[level] = [buffers[level] EXCEPT !.filled = 0]
          /\ \A l \in BufferIndex \ {level, level + 1} :
                buffers'[l] = buffers[l] /\ heap'.buf[l] = heap.buf[l]
          /\ IF buffers[level + 1].data = "root_hash"
             THEN /\ Slice(desc', OFF_ROOT_HASH + old, digest_size) = H
                  /\ SameOutside(desc, desc', OFF_ROOT_HASH + old, digest_size)
                  /\ heap'.buf[level + 1] = heap.buf[level + 1]
             ELSE /\ Slice(heap'.buf[level + 1].bytes, old, digest_size) = H
                  /\ SameOutside(heap.buf[level + 1].bytes, heap'.buf[level + 1].bytes,
                                 old, digest_size)
                  /\ desc' = desc
          /\ pc = "hash" =>
                ((level' = level + 1) <=> (old + digest_size + digest_size > block_size))
      ]_vars

\* the third digest of a block of four was appended to level 0
C15_Witness ==
    /\ pc = "stream"
    /\ hashes_per_block = 4
    /\ num_levels >= 1
    /\ buffers[0].filled = 3 * digest_size
    /\ buffers[-1].filled = 0
    /\ trace.hash_steps = 3

\* whether check k of the validation order fails: 1 the required pointers,
\* 2 the version, 3 the block size, 4 the salt size, 5 the salt pointer,
\* 6 the reserved fields, 7 the hash algorithm
CheckFails(k) ==
    CASE k = 1 -> ~args.read_fn \/ ~args.params \/ ~args.digest_ret
      [] k = 2 -> params.version # 1
      [] k = 3 -> ~(\E j \in 0..30 : params.block_size = 2^j)
      [] k = 4 -> params.salt_size > 32
      [] k = 5 -> params.salt_size > 0 /\ ~params.salt_ptr
      [] k = 6 -> \E j \in 1..RESERVED_LEN : params.reserved[j] # 0
      [] k = 7 -> params.hash_algorithm \notin {1, 2}

\* the diagnostic of each check
Diagnostics ==
    << "missing required parameters for compute_digest",
       "unsupported version (%u)",
       "unsupported block size (%u)",
       "unsupported salt size (%u)",
       "salt_size specified, but salt is NULL",
       "reserved bits set in merkle_tree_params",
       "unknown hash algorithm: %u" >>

\* the checks that fail
FailedChecks == {k \in 1..7 : CheckFails(k)}

\* C16: a call that fails one or more validation checks emits exactly one
\* diagnostic, that of the first failing check in the order pointers,
\* version, block size, salt size, salt pointer, reserved fields, hash
\* algorithm, whatever later checks would fail too.
C16_FirstFailureOnly ==
    (pc = "done" /\ FailedChecks # {}) =>
        /\ Len(trace.msgs) = 1
        /\ \E k \in FailedChecks :
              /\ \A j \in FailedChecks : k <= j
              /\ trace.msgs[1] = Diagnostics[k]

\* five checks fail at once and the version is reported
C16_Witness ==
    /\ pc = "done"
    /\ FailedChecks = {2, 3, 4, 6, 7}
    /\ trace.msgs = <<"unsupported version (%u)">>

StreamWithinFile ==
    /\ Len(trace.reads) <= RefBlocks
    /\ pc = "stream" => offset = Len(trace.reads) * block_size
    /\ pc = "hash" => offset = (Len(trace.reads) - 1) * block_size

\* C18: for every file size of the u64 range the offset counter of the
\* streaming loop never wraps around and the loop body runs at most
\* ceil(file_size / block_size) times.
C18_OffsetNeverWraps ==
    (Passed /\ params.file_size > 0) => StreamWithinFile

\* C18, for the file sizes below the top block of the u64 range: what the
\* code keeps of the claim.
C18_OffsetNeverWraps_BelowWrap ==
    (Passed /\ params.file_size > 0 /\ BelowWrap) => StreamWithinFile

\* the bytes written through the root sink fit in the digest_size bytes of
\* desc.root_hash the sink stands for
RootSinkWithinDigest == buffers[num_levels].filled <= digest_size

\* C19: in every reachable state, for every parameter set that passes
\* validation and every file size of the u64 range, no more than digest_size
\* bytes were written through the root sink.
C19_RootSinkOneDigest ==
    Passed => RootSinkWithinDigest

\* C19, for the file sizes below the top block of the u64 range: what the
\* code keeps of the claim.
C19_RootSinkOneDigest_BelowWrap ==
    (Passed /\ BelowWrap) => RootSinkWithinDigest

\* the call passes validation with a block in which fewer than two digests
\* fit, on a nonempty file
SmallBlock == Passed /\ block_size < 2 * digest_size /\ params.file_size > 0

\* C20: with a power-of-two block_size below twice the digest size and a
\* nonempty file the call never faults and never succeeds: it produces no
\* digest and, unless an allocation or a read failed first, returns -EINVAL.
C20_SmallBlockRejected ==
    SmallBlock =>
        /\ pc # "fault"
        /\ pc = "done" => (ret # 0 /\ digest_ret = "caller")
        /\ (pc = "done" /\ trace.fail.kind = "none") => ret = -EINVAL

\* C20, without the part about faults: what the code keeps of the claim.
C20_SmallBlockNoSuccess ==
    SmallBlock =>
        /\ pc = "done" => (ret # 0 /\ digest_ret = "caller")
        /\ (pc = "done" /\ trace.fail.kind = "none") => ret = -EINVAL

=============================================================================
